---------------------------- MODULE Spec2Model ----------------------------
(***************************************************************************)
(* A model of btc-py-async-toolbox: the JSON-RPC client (btc/rpc.py,       *)
(* btc/rpc_wrapper.py, btc/utils.py) and the ZMQ event subscriber          *)
(* (btc/zmq_wrapper.py).                                                   *)
(*                                                                         *)
(* The two components share no state.  Each has its own specification:     *)
(*   Spec         the RPC client, one caller issuing calls one at a time   *)
(*   ConcSpec     the RPC client, two callers suspended concurrently       *)
(*   ZmqSpec      the subscriber (safety)                                  *)
(*   SeqSpec      the subscriber, sequence frames of several lengths       *)
(*   ZmqFairSpec  the subscriber, with the fairness of the event loop      *)
(***************************************************************************)
EXTENDS Integers, Sequences, FiniteSets, TLC

\* ------------------------------------------------------------------ bounds
\* Longest request list a batch call is given (250 -> chunks of 100, 100, 50).
MaxLen == 250

\* rpc_wrapper.py:10
CHUNK_SIZE == 100

\* The callers of the client instance: one, issuing its calls one at a time.
Callers == {1}

\* The coroutines that can be suspended in a call of one client instance at the
\* same time (the second one takes part in ConcSpec only).
ConcCallers == {1, 2}

\* ------------------------------------------------------------ python values
\* Python values that reach a caller are records, so that any two of them can
\* be compared: None, a list, a tuple; a dict is the record of its keys.
None == [py |-> "None"]
List(s) == [py |-> "list", items |-> s]
Tuple(s) == [py |-> "tuple", items |-> s]
\* An exception propagating out of a function, in place of its value.
Raise(exc) == [py |-> "raise", exc |-> exc]
IsRaise(v) == "exc" \in DOMAIN v

Min(a, b) == IF a < b THEN a ELSE b
Max(a, b) == IF a > b THEN a ELSE b

\* ------------------------------------------------------------------ utils.py
\* split_into_chunks slicing lst[i : i + chunk_size + 1]: every chunk but the
\* last takes one request too many.
split_into_chunks_overlap(lst, chunk_size) ==
    LET cs == Max(chunk_size, 1)
        n  == (Len(lst) + cs - 1) \div cs
    IN  [j \in 1 .. n |-> SubSeq(lst, (j - 1) * cs + 1, Min(j * cs + 1, Len(lst)))]

\* split_into_chunks(lst, chunk_size): lst[i : i + chunk_size] for i in
\* range(0, len(lst), chunk_size), with chunk_size = max(chunk_size, 1).
split_into_chunks(lst, chunk_size) ==
    LET cs == Max(chunk_size, 1)
        n  == (Len(lst) + cs - 1) \div cs
    IN  [j \in 1 .. n |-> SubSeq(lst, (j - 1) * cs + 1, Min(j * cs, Len(lst)))]

\* flatten with the operands of the fold swapped: each chunk is put in front
\* of what was gathered so far.
flatten_swapped(lst) ==
    LET RECURSIVE f(_, _)
        f(acc, i) == IF i > Len(lst) THEN acc ELSE f(lst[i] \o acc, i + 1)
    IN  f(lst[1], 2)

\* flatten(lst) = reduce(operator.concat, lst): a left fold with no initial
\* value, so a one-element list yields its element as it is.  The caller
\* guards against the empty list.
RECURSIVE reduce_concat(_, _, _)
reduce_concat(acc, lst, i) ==
    IF i > Len(lst) THEN acc ELSE reduce_concat(acc \o lst[i], lst, i + 1)

flatten(lst) == reduce_concat(lst[1], lst, 2)

\* -------------------------------------------------------------------- rpc.py
\* The ids that n RPC objects can draw, in the order the objects are built:
\* self.id = random.randint(0, 2 ** 32), each draw independent of the others.
\* Two of the outcomes: n different values, and the last object drawing the
\* value the first one drew.
RandomIds(n) ==
    {[i \in 1 .. n |-> i]} \cup
    (IF n >= 2 THEN {[i \in 1 .. n |-> IF i = n THEN 1 ELSE i]} ELSE {})

\* RPC(method, params): the request object (RPC.__init__).  The random id is
\* not read by the client (responses are taken by position); it is kept
\* beside the requests, in the ids of the call that built them.
RPC(method, params) == [method |-> method, params |-> params, jsonrpc |-> "2.0"]

\* RPC._assemble: the JSON payload of one request.
Assemble(rpc) == [method |-> rpc.method, params |-> rpc.params, jsonrpc |-> rpc.jsonrpc]

\* RPCBatch(method_list)._assemble: the payloads of its requests, in order.
AssembleBatch(rpc_list) == [i \in 1 .. Len(rpc_list) |-> Assemble(rpc_list[i])]

\* ------------------------------------------------------------------ the node
\* The node rejects some requests with an RPC-level error (here: a first
\* parameter that is a multiple of 7); the envelope of a rejected request has a
\* null result and a populated error.
NodeRejects(payload) ==
    /\ Len(payload.params) > 0
    /\ payload.params[1] % 7 = 0

\* The response envelope of the node to one request payload.
NodeEnvelope(payload) ==
    IF NodeRejects(payload)
    THEN [result |-> None, error |-> [code |-> payload.params[1]]]
    ELSE [result |-> [value |-> <<payload.method, payload.params>>], error |-> None]

\* The response to a batch payload: one envelope per request, in request order.
NodeBatchResponse(payloads) == [i \in 1 .. Len(payloads) |-> NodeEnvelope(payloads[i])]

\* ------------------------------------------------------------ rpc_wrapper.py
\* process_rpc_response without its "if not response" guard: None is
\* subscripted, which raises TypeError.
process_rpc_response_unguarded(response, return_error) ==
    IF response = None THEN Raise("TypeError")
    ELSE IF return_error THEN Tuple(<<response.result, response.error>>)
    ELSE response.result

\* process_rpc_response raising RPCException for a populated error field when
\* the caller asked for the result only.
process_rpc_response_strict(response, return_error) ==
    IF response = None THEN None
    ELSE IF return_error THEN Tuple(<<response.result, response.error>>)
    ELSE IF response.error # None THEN Raise("RPCException")
    ELSE response.result

\* process_rpc_response(response, return_error): "if not response" holds for
\* None (an envelope of the node is never an empty dict).
process_rpc_response(response, return_error) ==
    IF response = None THEN None
    ELSE IF return_error THEN Tuple(<<response.result, response.error>>)
    ELSE response.result

\* process_rpc_response_batch(response, return_error): "if not response" holds
\* for None and for the empty list.
process_rpc_response_batch(response, return_error) ==
    IF response = None \/ response = List(<<>>) THEN List(<<>>)
    ELSE IF return_error
         THEN List([i \in 1 .. Len(response.items) |->
                       Tuple(<<response.items[i].result, response.items[i].error>>)])
         ELSE List([i \in 1 .. Len(response.items) |-> response.items[i].result])

VARIABLES
    session,          \* RPCHandler.session: None or the session object
    sessionsCreated,  \* how many aiohttp.ClientSession objects were constructed
    connected,        \* RPCHandler.connected
    call,             \* per caller: the coroutine of its current client call
    net,              \* HTTP exchanges in flight (posted, not yet answered)
    sent,             \* per caller: the payloads posted by its current call, in order
    teardown          \* whether __del__ has run, and what it did

rpcVars == <<session, sessionsCreated, connected, call, net, sent, teardown>>

VARIABLES
    phase,        \* "new" before ZMQHandler.__init__ has run, "constructed" after
    supplied,     \* the handler arguments __init__ was given, per topic
    attrs,        \* the instance's <topic>_handler attributes
    filters,      \* the topics subscribed on zmqSubSocket
    destroyed,    \* zmqContext.destroy() was called (the socket is closed)
    starts,       \* calls of start()
    stops,        \* calls of stop()
    arrived,      \* the messages the socket has received, in arrival order
    recvCount,    \* how many of them recv_multipart has returned
    tasks,        \* the handle() tasks that have not ended
    created,      \* per call of start(): how many tasks its chain of re-arms has made
    dispatchLog,  \* the handler invocations, in order
    errors        \* the tasks that ended with an exception

zmqVars == <<phase, supplied, attrs, filters, destroyed, starts, stops, arrived,
             recvCount, tasks, created, dispatchLog, errors>>

Idle ==
    [pc |-> "idle", kind |-> "none", method_list |-> <<>>, return_error |-> FALSE,
     chunks |-> <<>>, k |-> 0, res |-> <<>>, raw |-> None, ret |-> None,
     failed |-> FALSE, ids |-> <<>>]

RpcInit ==
    /\ session = None
    /\ sessionsCreated = 0
    /\ connected = FALSE
    /\ call = [c \in ConcCallers |-> Idle]
    /\ net = {}
    /\ sent = [c \in ConcCallers |-> <<>>]
    /\ teardown = [ran |-> FALSE, outcome |-> None, closeTask |-> FALSE]

\* _init_session without its "if not self.session": every call constructs a
\* session of its own.
InitSession_always ==
    /\ session' = [py |-> "ClientSession", timeout |-> 1200]
    /\ sessionsCreated' = sessionsCreated + 1

\* RPCHandler._init_session: it has no suspension point, so it runs as one step
\* of whatever calls it.
InitSession ==
    IF session = None
    THEN /\ session' = [py |-> "ClientSession", timeout |-> 1200]
         /\ sessionsCreated' = sessionsCreated + 1
    ELSE UNCHANGED <<session, sessionsCreated>>

\* The request list a batch method of the facade builds from n inputs, e.g.
\* get_block_hash_batch([1 .. n]) = [("getblockhash", [h]) for h in 1 .. n].
MethodList(method, n) == [i \in 1 .. n |-> <<method, <<i>>>>]

\* The single calls the callers make: get_balance(), get_block_hash(1) and
\* get_block_hash(7), which the node rejects.
SingleCalls == {<<"getbalance", <<>>>>, <<"getblockhash", <<1>>>>, <<"getblockhash", <<7>>>>}

\* A facade batch method called: _execute_rpc_batch up to its first suspension.
\*   if not method_list: return []
\*   await self._init_session(); chunks = split_into_chunks(...);
\*   rpc_batch_chunks = [RPCBatch([RPC(m, p) for m, p in c]) for c in chunks]; res = []
BeginBatch(c, method, n, return_error) ==
    /\ ~teardown.ran
    /\ call[c].pc = "idle"
    /\ LET method_list == MethodList(method, n) IN
       IF method_list = <<>>
       THEN /\ call' = [call EXCEPT ![c] =
                  [Idle EXCEPT !.pc = "normalize", !.kind = "batch",
                               !.return_error = return_error, !.raw = List(<<>>)]]
            /\ UNCHANGED <<session, sessionsCreated>>
       ELSE /\ InitSession
            /\ LET chunks == split_into_chunks(method_list, CHUNK_SIZE)
                   rpc_batch_chunks ==
                       [j \in 1 .. Len(chunks) |->
                           [i \in 1 .. Len(chunks[j]) |->
                               RPC(chunks[j][i][1], chunks[j][i][2])]]
               IN  \E ids \in RandomIds(Len(method_list)) :
                       call' = [call EXCEPT ![c] =
                           [Idle EXCEPT !.pc = "loop", !.kind = "batch",
                                        !.method_list = method_list,
                                        !.return_error = return_error,
                                        !.chunks = rpc_batch_chunks, !.k = 1,
                                        !.ids = ids]]
    /\ sent' = [sent EXCEPT ![c] = <<>>]
    /\ UNCHANGED <<connected, net>>
    /\ UNCHANGED <<teardown, zmqVars>>

\* The loop body posting chunk k without awaiting its response (the chunks
\* gathered): the loop goes on to chunk k+1 at once.
PostChunk_gather(c) ==
    /\ call[c].pc = "loop"
    /\ call[c].kind = "batch"
    /\ LET payload == AssembleBatch(call[c].chunks[call[c].k]) IN
       /\ net' = net \cup {[caller |-> c, k |-> call[c].k, payload |-> List(payload)]}
       /\ sent' = [sent EXCEPT ![c] = Append(@, payload)]
    /\ call' = [call EXCEPT ![c].k = @ + 1,
                            ![c].pc = IF call[c].k < Len(call[c].chunks)
                                      THEN "loop" ELSE "await"]
    /\ UNCHANGED <<session, sessionsCreated, connected>>
    /\ UNCHANGED <<teardown, zmqVars>>

\* The loop body's call: rpc.execute(url, session) posts chunk k (a JSON array)
\* and suspends until the response has been read (RPC.execute).
PostChunk(c) ==
    /\ call[c].pc = "loop"
    /\ call[c].kind = "batch"
    /\ LET payload == AssembleBatch(call[c].chunks[call[c].k]) IN
       /\ net' = net \cup {[caller |-> c, k |-> call[c].k, payload |-> List(payload)]}
       /\ sent' = [sent EXCEPT ![c] = Append(@, payload)]
    /\ call' = [call EXCEPT ![c].pc = "await"]
    /\ UNCHANGED <<session, sessionsCreated, connected>>
    /\ UNCHANGED <<teardown, zmqVars>>

\* The batch loop taking the next response that arrives on the shared session,
\* whichever batch call posted the request.
ChunkResponse_anyExchange(c) ==
    /\ call[c].pc = "await"
    /\ call[c].kind = "batch"
    /\ \E x \in net :
        /\ x.k >= 1
        /\ net' = net \ {x}
        /\ LET res == Append(call[c].res, NodeBatchResponse(x.payload.items)) IN
           IF call[c].k < Len(call[c].chunks)
           THEN call' = [call EXCEPT ![c].res = res, ![c].k = @ + 1, ![c].pc = "loop"]
           ELSE call' = [call EXCEPT ![c].res = res, ![c].k = @ + 1,
                                     ![c].raw = List(flatten(res)),
                                     ![c].pc = "normalize"]
    /\ UNCHANGED <<session, sessionsCreated, connected, sent>>
    /\ UNCHANGED <<teardown, zmqVars>>

\* The response of chunk k arrives: res.append(...); after the last chunk the
\* loop ends and flatten(res) is returned (res is not empty there).
ChunkResponse(c) ==
    /\ call[c].pc = "await"
    /\ call[c].kind = "batch"
    /\ \E x \in net :
        /\ x.caller = c
        /\ x.k = call[c].k
        /\ net' = net \ {x}
        /\ LET res == Append(call[c].res, NodeBatchResponse(x.payload.items)) IN
           IF call[c].k < Len(call[c].chunks)
           THEN call' = [call EXCEPT ![c].res = res, ![c].k = @ + 1, ![c].pc = "loop"]
           ELSE call' = [call EXCEPT ![c].res = res, ![c].k = @ + 1,
                                     ![c].raw = IF res # <<>> THEN List(flatten(res))
                                                               ELSE List(<<>>),
                                     ![c].pc = "normalize"]
    /\ UNCHANGED <<session, sessionsCreated, connected, sent>>
    /\ UNCHANGED <<teardown, zmqVars>>

\* The except branch returning what the answered chunks gave instead of None.
ChunkFailure_partial(c) ==
    /\ call[c].pc = "await"
    /\ call[c].kind = "batch"
    /\ net' = {x \in net : x.caller # c}
    /\ call' = [call EXCEPT
           ![c].raw = IF call[c].res # <<>> THEN List(flatten(call[c].res)) ELSE None,
           ![c].failed = TRUE, ![c].pc = "normalize"]
    /\ UNCHANGED <<session, sessionsCreated, connected, sent>>
    /\ UNCHANGED <<teardown, zmqVars>>

\* The try inside the loop: a failed chunk is given up and the loop goes on
\* with the chunks after it.
ChunkFailure_continue(c) ==
    /\ call[c].pc = "await"
    /\ call[c].kind = "batch"
    /\ net' = {x \in net : x.caller # c}
    /\ IF call[c].k < Len(call[c].chunks)
       THEN call' = [call EXCEPT ![c].failed = TRUE, ![c].k = @ + 1, ![c].pc = "loop"]
       ELSE call' = [call EXCEPT ![c].raw = None, ![c].failed = TRUE,
                                 ![c].pc = "normalize"]
    /\ UNCHANGED <<session, sessionsCreated, connected, sent>>
    /\ UNCHANGED <<teardown, zmqVars>>

\* rpc.execute raises (connection refused, timeout, malformed HTTP or body):
\* except Exception: log and return None.
ChunkFailure(c) ==
    /\ call[c].pc = "await"
    /\ call[c].kind = "batch"
    /\ net' = {x \in net : x.caller # c}
    /\ call' = [call EXCEPT ![c].raw = None, ![c].failed = TRUE, ![c].pc = "normalize"]
    /\ UNCHANGED <<session, sessionsCreated, connected, sent>>
    /\ UNCHANGED <<teardown, zmqVars>>

\* The facade method's last line: return process_rpc_response_batch(resp, return_error)
NormalizeBatch(c) ==
    /\ call[c].pc = "normalize"
    /\ call[c].kind = "batch"
    /\ LET ret == process_rpc_response_batch(call[c].raw, call[c].return_error) IN
       call' = [call EXCEPT ![c].ret = ret,
                            ![c].pc = IF IsRaise(ret) THEN "raised" ELSE "returned"]
    /\ UNCHANGED <<session, sessionsCreated, connected, net, sent>>
    /\ UNCHANGED <<teardown, zmqVars>>

\* A facade single-call method called: _execute_rpc_single up to its suspension.
\*   await self._init_session(); rpc = RPC(method, params);
\*   result = await rpc.execute(self.url, self.session)
BeginSingle(c, method, params, return_error) ==
    /\ ~teardown.ran
    /\ call[c].pc = "idle"
    /\ InitSession
    /\ LET rpc == RPC(method, params) IN
       /\ \E ids \in RandomIds(1) :
              call' = [call EXCEPT ![c] =
                  [Idle EXCEPT !.pc = "await", !.kind = "single",
                               !.method_list = <<<<method, params>>>>,
                               !.return_error = return_error, !.ids = ids]]
       /\ net' = net \cup {[caller |-> c, k |-> 0, payload |-> Assemble(rpc)]}
       /\ sent' = [sent EXCEPT ![c] = <<Assemble(rpc)>>]
    /\ UNCHANGED connected
    /\ UNCHANGED <<teardown, zmqVars>>

\* The response arrives: result['error'] is read for the log, result is returned.
SingleResponse(c) ==
    /\ call[c].pc = "await"
    /\ call[c].kind = "single"
    /\ \E x \in net :
        /\ x.caller = c
        /\ net' = net \ {x}
        /\ call' = [call EXCEPT ![c].raw = NodeEnvelope(x.payload), ![c].pc = "normalize"]
    /\ UNCHANGED <<session, sessionsCreated, connected, sent>>
    /\ UNCHANGED <<teardown, zmqVars>>

\* The except branch of _execute_rpc_single also marking the client as
\* disconnected.
SingleFailure_disconnects(c) ==
    /\ call[c].pc = "await"
    /\ call[c].kind = "single"
    /\ net' = {x \in net : x.caller # c}
    /\ call' = [call EXCEPT ![c].raw = None, ![c].failed = TRUE, ![c].pc = "normalize"]
    /\ connected' = FALSE
    /\ UNCHANGED <<session, sessionsCreated, sent>>
    /\ UNCHANGED <<teardown, zmqVars>>

\* rpc.execute raises: except Exception: log and return None.
SingleFailure(c) ==
    /\ call[c].pc = "await"
    /\ call[c].kind = "single"
    /\ net' = {x \in net : x.caller # c}
    /\ call' = [call EXCEPT ![c].raw = None, ![c].failed = TRUE, ![c].pc = "normalize"]
    /\ UNCHANGED <<session, sessionsCreated, connected, sent>>
    /\ UNCHANGED <<teardown, zmqVars>>

\* The facade method's last line: return process_rpc_response(resp, return_error)
NormalizeSingle(c) ==
    /\ call[c].pc = "normalize"
    /\ call[c].kind = "single"
    /\ LET ret == process_rpc_response(call[c].raw, call[c].return_error) IN
       call' = [call EXCEPT ![c].ret = ret,
                            ![c].pc = IF IsRaise(ret) THEN "raised" ELSE "returned"]
    /\ UNCHANGED <<session, sessionsCreated, connected, net, sent>>
    /\ UNCHANGED <<teardown, zmqVars>>

\* _test_connection up to its suspension: _init_session, RPC("getbalance"), execute.
BeginProbe(c) ==
    /\ ~teardown.ran
    /\ call[c].pc = "idle"
    /\ InitSession
    /\ LET rpc == RPC("getbalance", <<>>) IN
       /\ \E ids \in RandomIds(1) :
              call' = [call EXCEPT ![c] =
                  [Idle EXCEPT !.pc = "await", !.kind = "probe", !.ids = ids]]
       /\ net' = net \cup {[caller |-> c, k |-> 0, payload |-> Assemble(rpc)]}
       /\ sent' = [sent EXCEPT ![c] = <<Assemble(rpc)>>]
    /\ UNCHANGED connected
    /\ UNCHANGED <<teardown, zmqVars>>

\* The probe's exchange completes: self.connected = True.
ProbeResponse(c) ==
    /\ call[c].pc = "await"
    /\ call[c].kind = "probe"
    /\ \E x \in net :
        /\ x.caller = c
        /\ net' = net \ {x}
    /\ connected' = TRUE
    /\ call' = [call EXCEPT ![c].pc = "returned"]
    /\ UNCHANGED <<session, sessionsCreated, sent>>
    /\ UNCHANGED <<teardown, zmqVars>>

\* The probe's exchange raises: except Exception: self.connected = False.
ProbeFailure(c) ==
    /\ call[c].pc = "await"
    /\ call[c].kind = "probe"
    /\ net' = {x \in net : x.caller # c}
    /\ connected' = FALSE
    /\ call' = [call EXCEPT ![c].failed = TRUE, ![c].pc = "returned"]
    /\ UNCHANGED <<session, sessionsCreated, sent>>
    /\ UNCHANGED <<teardown, zmqVars>>

\* The caller takes the returned value (or the exception); it may call again.
Return(c) ==
    /\ call[c].pc \in {"returned", "raised"}
    /\ call' = [call EXCEPT ![c] = Idle]
    /\ sent' = [sent EXCEPT ![c] = <<>>]
    /\ UNCHANGED <<session, sessionsCreated, connected, net>>
    /\ UNCHANGED <<teardown, zmqVars>>

\* RPCHandler.__del__, run when the last reference to the client is dropped (no
\* coroutine of it is alive then, and none can be started afterwards):
\*   if not self.session.closed: asyncio.create_task(self.session.close())
\* self.session is None until a call or probe has run, and None has no
\* attribute "closed"; the client never closes a session it made, so an
\* existing session is open; create_task needs a running event loop.
Del(running) ==
    /\ ~teardown.ran
    /\ \A c \in ConcCallers : call[c] = Idle
    /\ teardown' =
           IF session = None
           THEN [ran |-> TRUE, outcome |-> Raise("AttributeError"), closeTask |-> FALSE]
           ELSE IF running
           THEN [ran |-> TRUE, outcome |-> None, closeTask |-> TRUE]
           ELSE [ran |-> TRUE, outcome |-> Raise("RuntimeError"), closeTask |-> FALSE]
    /\ UNCHANGED <<session, sessionsCreated, connected, call, net, sent>>
    /\ UNCHANGED zmqVars

RpcNext ==
    \/ \E running \in BOOLEAN : Del(running)
    \/ \E c \in Callers :
           \/ \E n \in 0 .. MaxLen, return_error \in BOOLEAN :
                  BeginBatch(c, "getblockhash", n, return_error)
           \/ PostChunk(c)
           \/ ChunkResponse(c)
           \/ ChunkFailure(c)
           \/ NormalizeBatch(c)
           \/ \E m \in SingleCalls, return_error \in BOOLEAN :
                  BeginSingle(c, m[1], m[2], return_error)
           \/ SingleResponse(c)
           \/ SingleFailure(c)
           \/ NormalizeSingle(c)
           \/ BeginProbe(c)
           \/ ProbeResponse(c)
           \/ ProbeFailure(c)
           \/ Return(c)

\* The batch lengths of the concurrent callers: none, one chunk, two chunks.
ConcLens == {0, 1, CHUNK_SIZE + 1}

\* The facade method each concurrent caller uses, so that the requests of the
\* two callers differ: get_block_hash(_batch) and get_transaction(_batch).
ConcMethod(c) == IF c = 1 THEN "getblockhash" ELSE "gettransaction"

\* Coroutines of several callers on one event loop: a step of any of them may
\* follow a step of any other wherever a call is suspended.
ConcNext ==
    \/ \E running \in BOOLEAN : Del(running)
    \/ \E c \in ConcCallers :
           \/ \E n \in ConcLens, return_error \in BOOLEAN :
                  BeginBatch(c, ConcMethod(c), n, return_error)
           \/ PostChunk(c)
           \/ ChunkResponse(c)
           \/ ChunkFailure(c)
           \/ NormalizeBatch(c)
           \/ \E p \in {<<1>>, <<7>>}, return_error \in BOOLEAN :
                  BeginSingle(c, ConcMethod(c), p, return_error)
           \/ SingleResponse(c)
           \/ SingleFailure(c)
           \/ NormalizeSingle(c)
           \/ BeginProbe(c)
           \/ ProbeResponse(c)
           \/ ProbeFailure(c)
           \/ Return(c)

\* ------------------------------------------------------------ zmq_wrapper.py
\* The five topics ZMQHandler knows, in the order of handle()'s branches.
Topics == {"hashblock", "hashtx", "rawblock", "rawtx", "sequence"}
\* A topic that is none of the five (no branch of handle() matches it).
OtherTopic == "other"

\* The handler a caller supplies for a topic: one function per topic.
Handler(topic) == [py |-> "function", name |-> topic]
\* An attribute that was never assigned.
Absent == [py |-> "absent"]

\* The <<body, sequence frame>> pairs the peer sends: a body with the 4-byte
\* frame 01 00 00 00, another with an empty frame.
Frames == {<<"aa", <<1, 0, 0, 0>>>>, <<"bb", <<>>>>}

\* The sequence frames of SeqSpec's peer, each with a body of its own: 4-byte
\* frames (1, 0x01020304 and 2^32 - 1) and frames of 0, 3, 5 and 8 bytes.
SeqFrames ==
    {<<"aa", <<1, 0, 0, 0>>>>, <<"ab", <<4, 3, 2, 1>>>>, <<"ac", <<255, 255, 255, 255>>>>,
     <<"bb", <<>>>>, <<"bc", <<1, 0, 0>>>>, <<"bd", <<1, 0, 0, 0, 0>>>>,
     <<"be", <<1, 0, 0, 0, 0, 0, 0, 0>>>>}

\* The decoding reading the four bytes most significant first ('>I').
DecodeSequence_bigEndian(seq) ==
    IF Len(seq) = 4
    THEN [value |-> [lo |-> seq[4] + 256 * seq[3], hi |-> seq[2] + 256 * seq[1]]]
    ELSE [unknown |-> TRUE]

\* sequence = "Unknown"; if len(seq) == 4: sequence = str(struct.unpack('<I', seq)[-1])
\* The unpacked value is unsigned and reaches 2^32 - 1: it is kept as its two
\* 16-bit halves, value = hi * 65536 + lo.
DecodeSequence(seq) ==
    IF Len(seq) = 4
    THEN [value |-> [lo |-> seq[1] + 256 * seq[2], hi |-> seq[3] + 256 * seq[4]]]
    ELSE [unknown |-> TRUE]

\* Bounds of the subscriber's environment.
MaxStarts == 2
MaxStops == 2
MaxMsgs == 2

\* A task is named <<s, g>>: the g-th task of the chain that the s-th call of
\* start() began (each task creates at most one task, as its last step).
TaskIds == (1 .. MaxStarts) \X (1 .. MaxMsgs + 1)

ZmqInit ==
    /\ phase = "new"
    /\ supplied = [t \in Topics |-> None]
    /\ attrs = [t \in Topics |-> Absent]
    /\ filters = {}
    /\ destroyed = FALSE
    /\ starts = 0
    /\ stops = 0
    /\ arrived = <<>>
    /\ recvCount = 0
    /\ tasks = {}
    /\ created = [st \in 1 .. MaxStarts |-> 0]
    /\ dispatchLog = <<>>
    /\ errors = {}

\* __init__, lines 22-25: four of the five attributes are assigned from the
\* arguments whatever they are; then each "if <topic>_handler:" assigns the
\* attribute (again, and for hashblock: only there).
InitAttrs(args) ==
    [t \in Topics |->
        IF t = "hashblock"
        THEN (IF args[t] # None THEN args[t] ELSE Absent)
        ELSE args[t]]

\* __init__ subscribing to every topic, whatever handlers were supplied.
InitFilters_all(args) == Topics

\* __init__, lines 32-51: one setsockopt_string(zmq.SUBSCRIBE, topic) per
\* "if <topic>_handler:".
InitFilters(args) ==
    (IF args["hashtx"] # None THEN {"hashtx"} ELSE {})
    \cup (IF args["rawblock"] # None THEN {"rawblock"} ELSE {})
    \cup (IF args["rawtx"] # None THEN {"rawtx"} ELSE {})
    \cup (IF args["sequence"] # None THEN {"sequence"} ELSE {})
    \cup (IF args["hashblock"] # None THEN {"hashblock"} ELSE {})

\* ZMQHandler(host, port, hashblock_handler=..., ...)
Construct(args) ==
    /\ phase = "new"
    /\ phase' = "constructed"
    /\ supplied' = args
    /\ attrs' = InitAttrs(args)
    /\ filters' = InitFilters(args)
    /\ UNCHANGED <<destroyed, starts, stops, arrived, recvCount, tasks, created, dispatchLog, errors>>
    /\ UNCHANGED rpcVars

\* self.loop.create_task(self.handle()) in chain st: the new task joins the
\* tasks ts.
CreateTask(st, ts) ==
    /\ tasks' = ts \cup {[id |-> <<st, created[st] + 1>>, pc |-> "scheduled", msg |-> 0]}
    /\ created' = [created EXCEPT ![st] = @ + 1]

\* start()
Start ==
    /\ phase = "constructed"
    /\ starts < MaxStarts
    /\ starts' = starts + 1
    /\ CreateTask(starts + 1, tasks)
    /\ UNCHANGED <<phase, supplied, attrs, filters, destroyed, stops, arrived,
                   recvCount, dispatchLog, errors>>
    /\ UNCHANGED rpcVars

\* stop(): zmqContext.destroy() closes the socket; on a destroyed context it
\* does nothing.
Stop ==
    /\ phase = "constructed"
    /\ stops < MaxStops
    /\ stops' = stops + 1
    /\ destroyed' = TRUE
    /\ UNCHANGED <<phase, supplied, attrs, filters, starts, arrived, recvCount,
                   tasks, created, dispatchLog, errors>>
    /\ UNCHANGED rpcVars

\* The peer publishes a message; the SUB socket takes it when its topic passes
\* a subscription filter.
Publish(topic, body, seq) ==
    /\ phase = "constructed"
    /\ ~destroyed
    /\ Len(arrived) < MaxMsgs
    /\ topic \in filters
    /\ arrived' = Append(arrived, [topic |-> topic, body |-> body, seq |-> seq])
    /\ UNCHANGED <<phase, supplied, attrs, filters, destroyed, starts, stops,
                   recvCount, tasks, created, dispatchLog, errors>>
    /\ UNCHANGED rpcVars

\* A message on a topic that was not subscribed reaches the socket all the same
\* (a misconfigured peer).
Misdeliver(topic, body, seq) ==
    /\ phase = "constructed"
    /\ ~destroyed
    /\ Len(arrived) < MaxMsgs
    /\ topic \notin filters
    /\ arrived' = Append(arrived, [topic |-> topic, body |-> body, seq |-> seq])
    /\ UNCHANGED <<phase, supplied, attrs, filters, destroyed, starts, stops,
                   recvCount, tasks, created, dispatchLog, errors>>
    /\ UNCHANGED rpcVars

\* The task ends with an exception, which nothing catches.
TaskRaises(t, exc, ts) ==
    /\ tasks' = ts
    /\ errors' = errors \cup {[task |-> t.id, msg |-> t.msg, exc |-> exc]}

\* handle() started on a socket that stop() left usable: the task is suspended
\* in recv_multipart() whether or not stop() was called.
TaskRun_reopen(id) ==
    \E t \in tasks :
        /\ t.id = id
        /\ t.pc = "scheduled"
        /\ tasks' = (tasks \ {t}) \cup {[t EXCEPT !.pc = "recv"]}
        /\ UNCHANGED <<created, errors>>
        /\ UNCHANGED <<phase, supplied, attrs, filters, destroyed, starts, stops,
                       arrived, recvCount, dispatchLog>>
        /\ UNCHANGED rpcVars

\* A scheduled task starts handle(): recv_multipart() on a closed socket
\* raises, otherwise the task is suspended in it.
TaskRun(id) ==
    \E t \in tasks :
        /\ t.id = id
        /\ t.pc = "scheduled"
        /\ IF destroyed
           THEN /\ TaskRaises(t, "ZMQError", tasks \ {t})
                /\ UNCHANGED <<created>>
           ELSE /\ tasks' = (tasks \ {t}) \cup {[t EXCEPT !.pc = "recv"]}
                /\ UNCHANGED <<created, errors>>
        /\ UNCHANGED <<phase, supplied, attrs, filters, destroyed, starts, stops,
                       arrived, recvCount, dispatchLog>>
        /\ UNCHANGED rpcVars

\* handle() with each branch guarded by "if self.<topic>_handler": a message
\* with no handler is skipped and the loop re-armed.
Recv_skipMissing(id) ==
    \E t \in tasks :
        /\ t.id = id
        /\ t.pc = "recv"
        /\ recvCount < Len(arrived)
        /\ recvCount' = recvCount + 1
        /\ LET n        == recvCount + 1
               m        == arrived[n]
               sequence == DecodeSequence(m.seq)
               me       == [t EXCEPT !.msg = n]
           IN  IF m.topic \in Topics /\ attrs[m.topic] \notin {Absent, None}
               THEN /\ dispatchLog' = Append(dispatchLog,
                           [task |-> id, msg |-> n, handler |-> attrs[m.topic],
                            body |-> m.body, sequence |-> sequence])
                    /\ tasks' = (tasks \ {t}) \cup {[me EXCEPT !.pc = "handler"]}
                    /\ UNCHANGED <<created, errors>>
               ELSE /\ CreateTask(id[1], tasks \ {t})
                    /\ UNCHANGED <<dispatchLog, errors>>
        /\ UNCHANGED <<phase, supplied, attrs, filters, destroyed, starts, stops, arrived>>
        /\ UNCHANGED rpcVars

\* handle() scheduling the next receive before it awaits the handler.
Recv_rearmFirst(id) ==
    \E t \in tasks :
        /\ t.id = id
        /\ t.pc = "recv"
        /\ recvCount < Len(arrived)
        /\ recvCount' = recvCount + 1
        /\ LET n        == recvCount + 1
               m        == arrived[n]
               sequence == DecodeSequence(m.seq)
               me       == [t EXCEPT !.msg = n]
           IN  IF m.topic \in Topics
               THEN IF attrs[m.topic] = Absent
                    THEN /\ TaskRaises(me, "AttributeError", tasks \ {t})
                         /\ UNCHANGED <<created, dispatchLog>>
                    ELSE IF attrs[m.topic] = None
                    THEN /\ TaskRaises(me, "TypeError", tasks \ {t})
                         /\ UNCHANGED <<created, dispatchLog>>
                    ELSE /\ dispatchLog' = Append(dispatchLog,
                                [task |-> id, msg |-> n, handler |-> attrs[m.topic],
                                 body |-> m.body, sequence |-> sequence])
                         /\ CreateTask(id[1], (tasks \ {t}) \cup
                                                  {[me EXCEPT !.pc = "handler"]})
                         /\ UNCHANGED errors
               ELSE /\ CreateTask(id[1], tasks \ {t})
                    /\ UNCHANGED <<dispatchLog, errors>>
        /\ UNCHANGED <<phase, supplied, attrs, filters, destroyed, starts, stops, arrived>>
        /\ UNCHANGED rpcVars

\* recv_multipart() returns the next message: the sequence frame is decoded,
\* the branch of the topic calls self.<topic>_handler(body) and awaits it; a
\* topic with no branch falls through to the re-arm.  The task resumes in a
\* later turn of the event loop than the one that completed its receive, and
\* stop() may run in between: closing the socket cancels the receives still
\* pending, not one that was completed, so the step is not barred by destroyed
\* (every message in arrived reached the socket before it was closed).
Recv(id) ==
    \E t \in tasks :
        /\ t.id = id
        /\ t.pc = "recv"
        /\ recvCount < Len(arrived)
        /\ recvCount' = recvCount + 1
        /\ LET n        == recvCount + 1
               m        == arrived[n]
               sequence == DecodeSequence(m.seq)
               me       == [t EXCEPT !.msg = n]
           IN  IF m.topic \in Topics
               THEN IF attrs[m.topic] = Absent
                    THEN /\ TaskRaises(me, "AttributeError", tasks \ {t})
                         /\ UNCHANGED <<created, dispatchLog>>
                    ELSE IF attrs[m.topic] = None
                    THEN /\ TaskRaises(me, "TypeError", tasks \ {t})
                         /\ UNCHANGED <<created, dispatchLog>>
                    ELSE /\ dispatchLog' = Append(dispatchLog,
                                [task |-> id, msg |-> n, handler |-> attrs[m.topic],
                                 body |-> m.body, sequence |-> sequence])
                         /\ tasks' = (tasks \ {t}) \cup {[me EXCEPT !.pc = "handler"]}
                         /\ UNCHANGED <<created, errors>>
               ELSE /\ CreateTask(id[1], tasks \ {t})
                    /\ UNCHANGED <<dispatchLog, errors>>
        /\ UNCHANGED <<phase, supplied, attrs, filters, destroyed, starts, stops, arrived>>
        /\ UNCHANGED rpcVars

\* handle() catching the failed receive and waiting again on the same socket.
RecvFail_retry(id) ==
    \E t \in tasks :
        /\ t.id = id
        /\ t.pc = "recv"
        /\ destroyed
        /\ UNCHANGED zmqVars
        /\ UNCHANGED rpcVars

\* The socket is closed while the task is suspended in recv_multipart(): the
\* receive fails and the exception ends the task.
RecvFail(id) ==
    \E t \in tasks :
        /\ t.id = id
        /\ t.pc = "recv"
        /\ destroyed
        /\ TaskRaises(t, "Cancelled", tasks \ {t})
        /\ UNCHANGED <<phase, supplied, attrs, filters, destroyed, starts, stops,
                       arrived, recvCount, created, dispatchLog>>
        /\ UNCHANGED rpcVars

\* handle() without its last line: the task ends and nothing is scheduled.
HandlerReturn_norearm(id) ==
    \E t \in tasks :
        /\ t.id = id
        /\ t.pc = "handler"
        /\ tasks' = tasks \ {t}
        /\ UNCHANGED <<phase, supplied, attrs, filters, destroyed, starts, stops,
                       arrived, recvCount, created, dispatchLog, errors>>
        /\ UNCHANGED rpcVars

\* The awaited handler completes: self.loop.create_task(self.handle()), and
\* handle() returns.
HandlerReturn(id) ==
    \E t \in tasks :
        /\ t.id = id
        /\ t.pc = "handler"
        /\ CreateTask(id[1], tasks \ {t})
        /\ UNCHANGED <<phase, supplied, attrs, filters, destroyed, starts, stops,
                       arrived, recvCount, dispatchLog, errors>>
        /\ UNCHANGED rpcVars

\* The awaited handler raises: the exception leaves handle() before its last
\* line.
HandlerRaise(id) ==
    \E t \in tasks :
        /\ t.id = id
        /\ t.pc = "handler"
        /\ TaskRaises(t, "HandlerError", tasks \ {t})
        /\ UNCHANGED <<phase, supplied, attrs, filters, destroyed, starts, stops,
                       arrived, recvCount, created, dispatchLog>>
        /\ UNCHANGED rpcVars

\* The handler arguments a subscriber is constructed with: per topic, the
\* topic's handler or None.
HandlerArgs == {[t \in Topics |-> IF t \in S THEN Handler(t) ELSE None] : S \in SUBSET Topics}

\* The constructions the fair specification starts from: the handlers of
\* rawblock and rawtx only, and all five.
LiveArgs == {[t \in Topics |-> IF t \in S THEN Handler(t) ELSE None] :
                S \in {{"rawblock", "rawtx"}, Topics}}

ZmqEnv ==
    \/ Start
    \/ Stop
    \/ \E topic \in Topics, f \in Frames : Publish(topic, f[1], f[2])
    \/ \E topic \in Topics \cup {OtherTopic}, f \in Frames : Misdeliver(topic, f[1], f[2])

ZmqLoop(id) ==
    \/ TaskRun(id)
    \/ Recv(id)
    \/ RecvFail(id)
    \/ HandlerReturn(id)
    \/ HandlerRaise(id)

ZmqNext ==
    \/ \E args \in HandlerArgs : Construct(args)
    \/ ZmqEnv
    \/ \E id \in TaskIds : ZmqLoop(id)

\* The construction SeqSpec starts from: a handler for each of the five topics.
AllArgs == [t \in Topics |-> Handler(t)]

ZmqSeqNext ==
    \/ Construct(AllArgs)
    \/ Start
    \/ Stop
    \/ \E topic \in Topics, f \in SeqFrames : Publish(topic, f[1], f[2])
    \/ \E id \in TaskIds : ZmqLoop(id)

ZmqLiveNext ==
    \/ \E args \in LiveArgs : Construct(args)
    \/ ZmqEnv
    \/ \E id \in TaskIds : ZmqLoop(id)

\* ------------------------------------------------------------ specifications
vars == <<rpcVars, zmqVars>>

Init == RpcInit /\ ZmqInit

\* The RPC client.
Spec == Init /\ [][RpcNext]_vars

\* The RPC client with two callers whose calls interleave.
ConcSpec == Init /\ [][ConcNext]_vars

\* The subscriber.
ZmqSpec == Init /\ [][ZmqNext]_vars

\* The subscriber with a handler for every topic, receiving sequence frames of
\* several lengths and values.
SeqSpec == Init /\ [][ZmqSeqNext]_vars

\* The subscriber on a running event loop: a task that can take its next step
\* takes it, and an awaited handler finishes (by returning or by raising).
ZmqFairSpec ==
    /\ Init /\ [][ZmqLiveNext]_vars
    /\ \A id \in TaskIds :
        /\ WF_vars(TaskRun(id))
        /\ WF_vars(Recv(id))
        /\ WF_vars(RecvFail(id))
        /\ WF_vars(HandlerReturn(id) \/ HandlerRaise(id))

\* --------------------------------------------------- properties: RPC client
\* The payload the i-th request of a request list is sent as.
PayloadOf(method_list, i) ==
    [method |-> method_list[i][1], params |-> method_list[i][2], jsonrpc |-> "2.0"]

\* ceil(n / CHUNK_SIZE)
NumChunks(n) == (n + CHUNK_SIZE - 1) \div CHUNK_SIZE

\* The call of caller c is a batch call that _execute_rpc_batch has finished.
BatchFinished(c) ==
    /\ call[c].kind = "batch"
    /\ call[c].pc \in {"normalize", "returned", "raised"}

\* C1: a batch of N requests whose chunk dispatches all succeed returns, from
\* _execute_rpc_batch, a list of length N whose i-th element is the node's
\* response to the i-th input request, across chunk boundaries too.
C1_BatchOrderPreserved ==
    \A c \in Callers :
        (BatchFinished(c) /\ ~call[c].failed) =>
            LET ml == call[c].method_list IN
            /\ call[c].raw.py = "list"
            /\ Len(call[c].raw.items) = Len(ml)
            /\ \A i \in 1 .. Len(ml) :
                   call[c].raw.items[i] = NodeEnvelope(PayloadOf(ml, i))

\* C1 witness: a batch of three chunks (250 requests) has returned its list.
C1_Witness ==
    \E c \in Callers :
        /\ BatchFinished(c) /\ ~call[c].failed
        /\ Len(call[c].method_list) = 2 * CHUNK_SIZE + 50
        /\ Len(call[c].chunks) = 3

\* C2: the chunk dispatches of one batch call never overlap: at most one
\* exchange of the call is in flight, the chunks are posted in their order, and
\* chunk k+1 is posted only once the response of chunk k has been received.
C2_SequentialDispatch ==
    \A c \in Callers :
        call[c].kind = "batch" =>
            /\ Cardinality({x \in net : x.caller = c}) <= 1
            /\ Len(sent[c]) <= Len(call[c].chunks)
            /\ \A j \in 1 .. Len(sent[c]) : sent[c][j] = AssembleBatch(call[c].chunks[j])
            /\ Len(sent[c]) <= Len(call[c].res) + 1
            /\ \A x \in net : x.caller = c => Len(call[c].res) = x.k - 1

\* C2 witness: the second chunk is in flight, the first one answered.
C2_Witness ==
    \E c \in Callers :
        /\ call[c].kind = "batch"
        /\ Len(sent[c]) = 2
        /\ Len(call[c].res) = 1
        /\ \E x \in net : x.caller = c /\ x.k = 2

\* The j-th dispatch is the j-th run of CHUNK_SIZE requests of the input (the
\* last one: what remains), in input order.
IsChunkOfInput(payloads, method_list, j) ==
    LET n    == Len(method_list)
        size == IF j < NumChunks(n) THEN CHUNK_SIZE ELSE n - CHUNK_SIZE * (NumChunks(n) - 1)
    IN  /\ Len(payloads) = size
        /\ \A i \in 1 .. size :
               payloads[i] = PayloadOf(method_list, (j - 1) * CHUNK_SIZE + i)

\* C3 as claimed: every finished batch of N requests has made exactly
\* ceil(N/100) dispatches (none for N = 0, with an empty list returned), each of
\* 100 requests but the last, each a contiguous run of the input.
C3_Original ==
    \A c \in Callers :
        BatchFinished(c) =>
            LET ml == call[c].method_list IN
            /\ Len(sent[c]) = NumChunks(Len(ml))
            /\ \A j \in 1 .. Len(sent[c]) : IsChunkOfInput(sent[c][j], ml, j)
            /\ Len(ml) = 0 => call[c].raw = List(<<>>)

\* C3 amended: a finished batch of N requests none of whose dispatches failed
\* has made exactly ceil(N/100) dispatches (none for N = 0, with an empty list
\* returned); a batch whose dispatch of chunk k failed has made exactly k; in
\* both cases dispatch j is the j-th contiguous run of 100 requests of the
\* input (the last of the ceil(N/100): the remaining ones).
C3_ChunkedDispatches ==
    \A c \in Callers :
        BatchFinished(c) =>
            LET ml == call[c].method_list IN
            /\ ~call[c].failed => Len(sent[c]) = NumChunks(Len(ml))
            /\ call[c].failed =>
                   /\ Len(sent[c]) = call[c].k
                   /\ call[c].k \in 1 .. NumChunks(Len(ml))
            /\ \A j \in 1 .. Len(sent[c]) : IsChunkOfInput(sent[c][j], ml, j)
            /\ Len(ml) = 0 => (call[c].raw = List(<<>>) /\ sent[c] = <<>>)

\* C3 witness: 250 requests went out as dispatches of 100, 100 and 50.
C3_Witness ==
    \E c \in Callers :
        /\ BatchFinished(c) /\ ~call[c].failed
        /\ Len(call[c].method_list) = 2 * CHUNK_SIZE + 50
        /\ Len(sent[c]) = 3
        /\ Len(sent[c][1]) = CHUNK_SIZE
        /\ Len(sent[c][2]) = CHUNK_SIZE
        /\ Len(sent[c][3]) = 50

\* C4: a batch one of whose chunk dispatches failed yields None from
\* _execute_rpc_batch and the empty list from the facade method, never the
\* responses of the chunks answered before the failure.
C4_NoPartialBatch ==
    \A c \in Callers :
        (BatchFinished(c) /\ call[c].failed) =>
            /\ call[c].raw = None
            /\ call[c].pc # "raised"
            /\ call[c].pc = "returned" => call[c].ret = List(<<>>)

\* C4 witness: a batch failed at its third chunk, after two answered chunks.
C4_Witness ==
    \E c \in Callers :
        /\ call[c].kind = "batch"
        /\ call[c].pc = "returned"
        /\ call[c].failed
        /\ Len(call[c].res) = 2

\* C5: a single or batch call whose exchange failed raises nothing to its
\* caller: it returns None (single) or the empty list (batch), with either
\* return shape.
C5_TransportFailureNotRaised ==
    \A c \in Callers :
        (call[c].failed /\ call[c].pc \in {"returned", "raised"}) =>
            /\ call[c].pc = "returned"
            /\ call[c].kind = "single" => call[c].ret = None
            /\ call[c].kind = "batch" => call[c].ret = List(<<>>)

\* C5 witness: a failed single call made with return_error=True has returned.
C5_Witness ==
    \E c \in Callers :
        /\ call[c].kind = "single"
        /\ call[c].failed
        /\ call[c].return_error
        /\ call[c].pc = "returned"

\* C11: on one client instance, whatever single calls, batch calls and probes
\* its callers make and however they interleave, at most one session is ever
\* constructed: the session attribute is set exactly when one has been, and
\* once set it is never replaced.
C11_SingleSession ==
    /\ [](sessionsCreated <= 1 /\ (session = None <=> sessionsCreated = 0))
    /\ [][session # None => session' = session]_vars

\* C11 witness: a batch of one caller and a single call of the other are both
\* suspended in their exchanges, on the one session.
C11_Witness ==
    /\ sessionsCreated = 1
    /\ call[1].kind = "batch" /\ call[1].pc = "await" /\ call[1].k = 2
    /\ call[2].kind = "single" /\ call[2].pc = "await"
    /\ Cardinality(net) = 2

\* What a call made with or without return_error returns for one envelope.
Shaped(envelope, return_error) ==
    IF return_error THEN Tuple(<<envelope.result, envelope.error>>) ELSE envelope.result

\* C14: a single or batch call whose exchanges all completed returns, with
\* return_error, the (result, error) pair of the node's response (for a batch:
\* one pair per request, in request order) and, without it, the result alone:
\* a populated error field is dropped, and the call neither raises nor fails.
C14_ErrorPairOrResultOnly ==
    \A c \in Callers :
        (call[c].pc \in {"returned", "raised"} /\ ~call[c].failed) =>
            LET ml == call[c].method_list
                re == call[c].return_error
            IN  /\ call[c].pc = "returned"
                /\ call[c].kind = "single" =>
                       call[c].ret = Shaped(NodeEnvelope(PayloadOf(ml, 1)), re)
                /\ call[c].kind = "batch" =>
                       /\ call[c].ret.py = "list"
                       /\ Len(call[c].ret.items) = Len(ml)
                       /\ \A i \in 1 .. Len(ml) :
                              call[c].ret.items[i] = Shaped(NodeEnvelope(PayloadOf(ml, i)), re)

\* C14 witness: get_block_hash(7), which the node rejects, was called without
\* return_error and returned None, the null result of the rejected request.
C14_Witness ==
    \E c \in Callers :
        /\ call[c].kind = "single"
        /\ call[c].pc = "returned"
        /\ ~call[c].failed /\ ~call[c].return_error
        /\ NodeRejects(PayloadOf(call[c].method_list, 1))
        /\ call[c].ret = None

\* C17 as claimed: every request object built for a batch call has an id, and
\* the ids of the requests of one batch call, over all its chunks, are
\* pairwise distinct.
C17_BatchIdsDistinct ==
    \A c \in Callers :
        call[c].kind = "batch" =>
            /\ Len(call[c].ids) = Len(call[c].method_list)
            /\ \A i, j \in 1 .. Len(call[c].ids) :
                   call[c].ids[i] = call[c].ids[j] => i = j

\* C18: with the calls of two callers interleaved on the shared session, each
\* call holds and returns the responses to its own requests only, in its own
\* input order: the responses gathered so far by a batch are those of its own
\* chunks, in order, and what _execute_rpc_batch or _execute_rpc_single
\* returns for a call without a failed exchange is the node's response to each
\* of the call's requests, in request order.
C18_CallsIsolated ==
    \A c \in ConcCallers :
        LET ml == call[c].method_list IN
        /\ call[c].kind = "batch" =>
               \A j \in 1 .. Len(call[c].res) :
                   call[c].res[j] = NodeBatchResponse(AssembleBatch(call[c].chunks[j]))
        /\ (call[c].pc \in {"normalize", "returned", "raised"} /\ ~call[c].failed) =>
               /\ call[c].kind = "batch" =>
                      /\ call[c].raw.py = "list"
                      /\ Len(call[c].raw.items) = Len(ml)
                      /\ \A i \in 1 .. Len(ml) :
                             call[c].raw.items[i] = NodeEnvelope(PayloadOf(ml, i))
               /\ call[c].kind = "single" =>
                      call[c].raw = NodeEnvelope(PayloadOf(ml, 1))

\* C18 witness: two batch calls of 101 requests are both suspended in the
\* exchange of their second chunk, each holding the response to its own first.
C18_Witness ==
    /\ \A c \in ConcCallers :
           /\ call[c].kind = "batch"
           /\ call[c].pc = "await"
           /\ call[c].k = 2
           /\ Len(call[c].res) = 1
    /\ Cardinality(net) = 2
    /\ call[1].res # call[2].res

\* C20: once the dispatch of chunk k of a batch has failed, the dispatches of
\* the batch are chunks 1 .. k, none of them is in flight, and until the call
\* has returned to its caller nothing more is sent for it: chunk k is not
\* sent again and no chunk after k is sent.
C20_NoDispatchAfterFailure ==
    /\ [](\A c \in Callers :
              (call[c].kind = "batch" /\ call[c].failed) =>
                  /\ Len(sent[c]) = call[c].k
                  /\ \A j \in 1 .. Len(sent[c]) :
                         sent[c][j] = AssembleBatch(call[c].chunks[j])
                  /\ \A x \in net : x.caller # c)
    /\ [][\A c \in Callers :
              (call[c].kind = "batch" /\ call[c].failed) =>
                  /\ sent'[c] = sent[c] \/ call'[c] = Idle
                  /\ \A x \in net' : x.caller # c]_vars

\* C20 witness: a batch of three chunks whose first dispatch failed has
\* returned, with that one dispatch made.
C20_Witness ==
    \E c \in Callers :
        /\ call[c].kind = "batch"
        /\ call[c].failed
        /\ call[c].pc = "returned"
        /\ Len(call[c].chunks) = 3
        /\ call[c].k = 1
        /\ Len(sent[c]) = 1

\* The probe of caller c completes in this step.
ProbeCompletes(c) ==
    /\ call[c].kind = "probe"
    /\ call[c].pc = "await"
    /\ call'[c].pc # "await"

\* C13: the connected flag is False until a probe has completed; a completing
\* probe returns to its caller without raising and sets the flag to its
\* outcome (True on success, False on failure); no other step changes the
\* flag, so it always equals the outcome of the last completed probe; and a
\* single or batch call can be issued whatever the flag's value.
C13_ConnectedIsLastProbe ==
    /\ connected = FALSE
    /\ [][/\ \A c \in ConcCallers :
                 ProbeCompletes(c) =>
                     /\ call'[c].pc = "returned"
                     /\ connected' = ~call'[c].failed
          /\ (\A c \in ConcCallers : ~ProbeCompletes(c)) => connected' = connected]_vars
    /\ [](\A c \in ConcCallers :
              (call[c].pc = "idle" /\ ~teardown.ran) =>
                  /\ ENABLED BeginSingle(c, ConcMethod(c), <<1>>, FALSE)
                  /\ ENABLED BeginBatch(c, ConcMethod(c), 1, FALSE))

\* C13 witness: after a successful probe a single call has failed and
\* returned, and the flag still says connected.
C13_Witness ==
    /\ connected
    /\ \E c \in ConcCallers :
           /\ call[c].kind = "single"
           /\ call[c].failed
           /\ call[c].pc = "returned"

\* C12 as claimed: teardown of a client whose session was never created
\* completes without an error (it takes one step and waits for nothing).
C12_TeardownWithoutSession ==
    (teardown.ran /\ sessionsCreated = 0) => ~IsRaise(teardown.outcome)

\* --------------------------------------------------- properties: subscriber
\* The ids of the tasks that have not ended.
LiveTasks == {t.id : t \in tasks}

\* Task id created a successor (the re-arm of its receive cycle).
Rearmed(id) == created[id[1]] > id[2]

\* C6 as claimed: a receive cycle whose handler raised has still scheduled the
\* next receive cycle.
C6_RearmSurvivesHandlerFailure ==
    \A e \in errors : e.exc = "HandlerError" => Rearmed(e.task)

\* Message n was dispatched, with its body, to the handler supplied for its topic.
Dispatched(n) ==
    \E i \in 1 .. Len(dispatchLog) :
        /\ dispatchLog[i].msg = n
        /\ dispatchLog[i].handler = supplied[arrived[n].topic]
        /\ dispatchLog[i].body = arrived[n].body

\* stop() has not been called and no receive cycle has raised (before stop()
\* a cycle raises only where it calls a handler).
Undisturbed == stops = 0 /\ errors = {}

\* Every dispatch whose handler has completed was followed by a re-arm.
RearmedAfterDispatch ==
    \A i \in 1 .. Len(dispatchLog) :
        LET id == dispatchLog[i].task IN
        (id \notin LiveTasks /\ \A e \in errors : e.task # id) => Rearmed(id)

\* C7: after start(), while stop() has not been called and no handler has
\* failed, each completed dispatch is followed by the scheduling of a new
\* receive cycle, and every message that arrives for a subscribed topic is
\* eventually dispatched, with its body, to the handler registered for it.
C7_EveryMessageDispatched ==
    /\ [](Undisturbed => RearmedAfterDispatch)
    /\ \A n \in 1 .. MaxMsgs :
           ([]Undisturbed) =>
               []((starts >= 1 /\ Len(arrived) >= n /\ arrived[n].topic \in filters)
                      => <>Dispatched(n))

\* C7 witness: two messages were dispatched one after the other by re-armed
\* cycles of one start(), with nothing stopped or failed.
C7_Witness ==
    /\ Undisturbed
    /\ starts = 1
    /\ Len(dispatchLog) = 2
    /\ Dispatched(1) /\ Dispatched(2)
    /\ dispatchLog[1].task # dispatchLog[2].task

\* C8: once stop() has been called, eventually no receive cycle is pending or
\* scheduled: the pending or next receive fails and its task ends without
\* re-arming.
C8_StopTerminatesLoop == destroyed ~> (tasks = {})

\* C8 witness: stop() was called twice, a pending receive failed, and no task
\* is left.
C8_Witness ==
    /\ stops = 2
    /\ tasks = {}
    /\ \E e \in errors : e.exc = "Cancelled"
    /\ \E e \in errors : e.exc = "ZMQError"

\* C9: a received message on one of the five topics for which no handler was
\* supplied makes its receive cycle raise: nothing is dispatched for it and
\* the cycle schedules no next receive.
C9_MissingHandlerIsFatal ==
    \A n \in 1 .. recvCount :
        (arrived[n].topic \in Topics /\ supplied[arrived[n].topic] = None) =>
            /\ \E e \in errors :
                   /\ e.msg = n
                   /\ e.exc \in {"TypeError", "AttributeError"}
                   /\ ~Rearmed(e.task)
            /\ \A i \in 1 .. Len(dispatchLog) : dispatchLog[i].msg # n

\* C9 witness: messages on hashblock and on rawtx were received with no
\* handler for either.
C9_Witness ==
    /\ recvCount = 2
    /\ {arrived[1].topic, arrived[2].topic} = {"hashblock", "rawtx"}
    /\ supplied["hashblock"] = None
    /\ supplied["rawtx"] = None

\* C10: after construction the subscribed topics are exactly the topics a
\* handler was supplied for, and each of them has the supplied handler recorded.
C10_FiltersMatchHandlers ==
    phase = "constructed" =>
        /\ filters = {t \in Topics : supplied[t] # None}
        /\ \A t \in Topics : supplied[t] # None => attrs[t] = supplied[t]

\* C10 witness: handlers for rawblock and rawtx only give exactly two filters.
C10_Witness ==
    /\ phase = "constructed"
    /\ {t \in Topics : supplied[t] # None} = {"rawblock", "rawtx"}
    /\ Cardinality(filters) = 2

\* The four bytes, least significant first, of an unsigned 32-bit value given
\* as its 16-bit halves.
LittleEndianBytes(v) == <<v.lo % 256, v.lo \div 256, v.hi % 256, v.hi \div 256>>

\* C15: every received message is dispatched, with its body, to its handler,
\* whatever its sequence frame: a frame of exactly 4 bytes was decoded to the
\* unsigned 32-bit value whose little-endian bytes are the frame (01 00 00 00
\* to 1), a frame of any other length, the empty one included, to the unknown
\* marker, and no cycle ended on an exception before its handler was called.
C15_SequenceDecoding ==
    /\ \A n \in 1 .. recvCount :
           \E i \in 1 .. Len(dispatchLog) :
               /\ dispatchLog[i].msg = n
               /\ dispatchLog[i].body = arrived[n].body
               /\ dispatchLog[i].handler = Handler(arrived[n].topic)
    /\ \A i \in 1 .. Len(dispatchLog) :
           LET seq      == arrived[dispatchLog[i].msg].seq
               sequence == dispatchLog[i].sequence
           IN  /\ Len(seq) = 4 =>
                      /\ DOMAIN sequence = {"value"}
                      /\ sequence.value.lo \in 0 .. 65535
                      /\ sequence.value.hi \in 0 .. 65535
                      /\ LittleEndianBytes(sequence.value) = seq
               /\ seq = <<1, 0, 0, 0>> => sequence = [value |-> [lo |-> 1, hi |-> 0]]
               /\ Len(seq) # 4 => sequence = [unknown |-> TRUE]
    /\ \A e \in errors : e.exc \in {"HandlerError", "Cancelled", "ZMQError"}

\* C15 witness: a message with the frame ff ff ff ff and one with a 5-byte
\* frame were both dispatched, the first as 2^32 - 1, the second as unknown.
C15_Witness ==
    /\ Len(dispatchLog) = 2
    /\ arrived[dispatchLog[1].msg].seq = <<255, 255, 255, 255>>
    /\ dispatchLog[1].sequence = [value |-> [lo |-> 65535, hi |-> 65535]]
    /\ dispatchLog[1].body = "ac"
    /\ Len(arrived[dispatchLog[2].msg].seq) = 5
    /\ dispatchLog[2].sequence = [unknown |-> TRUE]
    /\ dispatchLog[2].body = "bd"


\* C16 as claimed: once stop() has been called, no handler is invoked.
C16_Original == [][destroyed => dispatchLog' = dispatchLog]_vars

\* Task id is suspended in recv_multipart().
Receiving(id) == \E t \in tasks : t.id = id /\ t.pc = "recv"

\* Task id has not begun its receive: it is scheduled, or not created yet.
NotBegun(id) == \A t \in tasks : t.id = id => t.pc = "scheduled"

\* C16 amended: once stop() has been called no receive begins any more: a
\* cycle that had not begun its receive by then (one scheduled earlier, one
\* re-armed later, one created by a later start()) never receives and never
\* invokes a handler; the only invocations that can follow stop() are made by
\* the cycles that were suspended in their receive at that time, each at most
\* one, for a message that had reached the socket before stop().
C16_StoppedIsTerminal ==
    /\ [][destroyed =>
             /\ arrived' = arrived
             /\ \A id \in TaskIds :
                    NotBegun(id) =>
                        \A t \in tasks' : t.id = id => t.pc = "scheduled"
             /\ Len(dispatchLog') > Len(dispatchLog) =>
                    Receiving(dispatchLog'[Len(dispatchLog')].task)]_vars
    /\ [](\A i, j \in 1 .. Len(dispatchLog) :
              dispatchLog[i].task = dispatchLog[j].task => i = j)

\* C16 witness: after stop(), the cycle of a second start() failed at its
\* receive without a handler call or a re-arm; the one dispatch there is was
\* made by the first chain.
C16_Witness ==
    /\ destroyed
    /\ starts = 2
    /\ tasks = {}
    /\ [task |-> <<2, 1>>, msg |-> 0, exc |-> "ZMQError"] \in errors
    /\ created[2] = 1
    /\ Len(dispatchLog) = 1
    /\ dispatchLog[1].task[1] = 1


\* C19: while start() has been called once, at most one receive cycle exists
\* (scheduled, suspended in its receive, or in its handler); a cycle that is
\* in its handler has not scheduled the next one; and the dispatches were
\* made one per cycle, by successive cycles, in the order the messages
\* arrived.
C19_OneCycleAtATime ==
    starts = 1 =>
        /\ Cardinality(tasks) <= 1
        /\ \A t \in tasks : t.pc = "handler" => ~Rearmed(t.id)
        /\ \A i, j \in 1 .. Len(dispatchLog) :
               i < j =>
                   /\ dispatchLog[i].msg < dispatchLog[j].msg
                   /\ dispatchLog[i].task[2] < dispatchLog[j].task[2]

\* C19 witness: after one start() the handler of the second message is
\* running, the first one having completed; there is no other cycle.
C19_Witness ==
    /\ starts = 1
    /\ stops = 0
    /\ Len(dispatchLog) = 2
    /\ tasks = {[id |-> <<1, 2>>, pc |-> "handler", msg |-> 2]}
    /\ dispatchLog[1].task = <<1, 1>>

=============================================================================
